---------------------------- MODULE Spec2Model ----------------------------
(***************************************************************************)
(* Model of backend/get_transcripts.py: the playlist lister                *)
(* (get_playlist_videos), the transcript fetcher with its language         *)
(* fallback chain (get_transcript), the cleaner (clean_transcript), the    *)
(* writer (save_transcript) and the orchestrating loop (main).             *)
(*                                                                         *)
(* Strings are sequences of one-character strings, so that the regular     *)
(* expression substitutions, strip() and replace() of the source are       *)
(* computed character by character.                                        *)
(*                                                                         *)
(* Environment assumptions, stated once: the two output directories start  *)
(* empty; console output (print) never raises; only exceptions derived     *)
(* from Exception are raised by the collaborators (no KeyboardInterrupt);  *)
(* the playlist API numbers the items of a playlist 0..N-1.                *)
(***************************************************************************)
EXTENDS Integers, Sequences, FiniteSets, TLC

VARIABLES
    pc,               \* position of the script
    playlist,         \* the playlist as the remote API holds it
    remaining,        \* indices of playlist items no page has delivered yet
    lister_videos,    \* get_playlist_videos: local list `videos`
    next_page_token,  \* get_playlist_videos: local `next_page_token`
    videos,           \* main: `videos`
    i,                \* main: loop index of enumerate(videos)
    transcript,       \* main: `transcript`
    calls,            \* transcript-API calls of the get_transcript call in
                      \* progress or just returned
    successful,       \* main: `successful`
    failed,           \* main: `failed`
    rawFiles,         \* files of RAW_DIR, as records [name, content]
    cleanFiles,       \* files of CLEAN_DIR, as records [name, content]
    sleeps,           \* completed time.sleep(1) calls
    outcomes,         \* one record per video whose processing has ended
    listFailed,       \* a page request of the lister has raised
    pages,            \* page requests of the lister that were answered
    arg,              \* argument of clean_transcript or save_transcript, called alone
    ret               \* its result

vars == <<pc, playlist, remaining, lister_videos, next_page_token, videos, i,
          transcript, calls, successful, failed, rawFiles, cleanFiles, sleeps,
          outcomes, listFailed, pages, arg, ret>>

mainVars == <<playlist, remaining, lister_videos, next_page_token, videos, i,
              transcript, calls, successful, failed, rawFiles, cleanFiles,
              sleeps, outcomes, listFailed, pages>>

---------------------------------------------------------------------------
(* Bounds *)

MaxVideos == 3
MaxEntries == 3
MaxEntryLen == 2
MaxTitleLen == 3

(* maxResults=50 of the page request *)
maxResults == 50

---------------------------------------------------------------------------
(* Characters and strings *)

Letters == {"a", "b", "c", "e", "l", "n", "o", "r", "t", "x",
            "A", "H", "I", "M", "P", "d", "i", "s", "u", "w", "v"}
Digits == <<"0", "1", "2", "3", "4", "5", "6", "7", "8", "9">>
DigitChars == {Digits[k] : k \in 1..10}

(* \w of Python's re: letters, digits and the underscore *)
IsWordChar(c) == c \in Letters \cup DigitChars \cup {"_"}

(* \s of Python's re, and the characters str.strip() removes *)
IsWhitespace(c) == c \in {" ", "\t", "\n"}

(* sep.join(parts) *)
RECURSIVE Join(_, _)
Join(sep, parts) ==
    IF parts = <<>> THEN <<>>
    ELSE IF Len(parts) = 1 THEN parts[1]
    ELSE parts[1] \o sep \o Join(sep, Tail(parts))

RECURSIVE LStrip(_)
LStrip(s) ==
    IF s # <<>> /\ IsWhitespace(Head(s)) THEN LStrip(Tail(s)) ELSE s

RECURSIVE RStrip(_)
RStrip(s) ==
    IF s # <<>> /\ IsWhitespace(s[Len(s)])
    THEN RStrip(SubSeq(s, 1, Len(s) - 1)) ELSE s

(* str.strip() *)
Strip(s) == RStrip(LStrip(s))

(* str.replace(old, new) for a one-character old *)
Replace(s, old, new) == [k \in 1..Len(s) |-> IF s[k] = old THEN new ELSE s[k]]

(* all strings over alphabet A of length at most n *)
RECURSIVE StringsUpTo(_, _)
StringsUpTo(A, n) ==
    IF n = 0 THEN {<<>>}
    ELSE LET shorter == StringsUpTo(A, n - 1)
         IN  shorter \cup {Append(s, c) : s \in shorter, c \in A}

---------------------------------------------------------------------------
(* Pure functions of the program *)

MinOf(S) == CHOOSE k \in S : \A m \in S : k <= m

(* re.sub(r'\[[^\]]+\]', '', s): leftmost, non-overlapping matches of '[',  *)
(* one or more characters other than ']' (a newline included), and ']'.     *)
RECURSIVE SubBrackets(_)
SubBrackets(s) ==
    IF s = <<>> THEN <<>>
    ELSE IF Head(s) # "[" THEN <<Head(s)>> \o SubBrackets(Tail(s))
    ELSE LET closers == {k \in 2..Len(s) : s[k] = "]"}
         IN  IF closers = {} \/ MinOf(closers) = 2
             THEN <<"[">> \o SubBrackets(Tail(s))
             ELSE SubBrackets(SubSeq(s, MinOf(closers) + 1, Len(s)))

(* clean_transcript(transcript), on the list of entries (<<>> for None/[]) *)
clean_transcript(entries) ==
    IF entries = <<>> THEN <<>>
    ELSE LET text_parts == [k \in 1..Len(entries) |-> entries[k].text]
             formatted_transcript == Join(<<"\n">>, text_parts)
         IN  SubBrackets(Strip(formatted_transcript))

(* safe_title without its .strip() *)
safe_title_no_strip(title) ==
    Replace(SelectSeq(title,
                LAMBDA c : IsWordChar(c) \/ IsWhitespace(c) \/ c = "-"),
            " ", "_")

(* re.sub(r'[^\w\s-]', '', title).strip().replace(' ', '_') *)
safe_title(title) ==
    Replace(Strip(SelectSeq(title,
                LAMBDA c : IsWordChar(c) \/ IsWhitespace(c) \/ c = "-")),
            " ", "_")

RECURSIVE DecimalDigits(_)
DecimalDigits(n) ==
    IF n < 10 THEN <<Digits[n + 1]>>
    ELSE DecimalDigits(n \div 10) \o <<Digits[(n % 10) + 1]>>

(* f"{position:03d}" for a position >= 0 *)
Format03d(n) ==
    LET d == DecimalDigits(n)
    IN  IF Len(d) >= 3 THEN d ELSE [k \in 1..(3 - Len(d)) |-> "0"] \o d

(* f"{position:03d}_{safe_title}_{video_id}" *)
base_filename(video_info) ==
    Format03d(video_info.position) \o <<"_">> \o safe_title(video_info.title)
        \o <<"_">> \o video_info.id

raw_name(video_info) == base_filename(video_info) \o <<".", "j", "s", "o", "n">>

clean_name(video_info) == base_filename(video_info) \o <<".", "t", "x", "t">>

(* list.sort(key=lambda x: x["position"]): stable, ascending *)
RECURSIVE SortByPosition(_)
SortByPosition(s) ==
    IF s = <<>> THEN <<>>
    ELSE LET v == s[Len(s)]
             front == SortByPosition(SubSeq(s, 1, Len(s) - 1))
             n == Cardinality({k \in 1..Len(front) : front[k].position <= v.position})
         IN  SubSeq(front, 1, n) \o <<v>> \o SubSeq(front, n + 1, Len(front))

(* Descriptor keeping the API's 0-based position *)
DescriptorZeroBased(item) ==
    [id |-> item.videoId, title |-> item.title, position |-> item.position]

(* the descriptor appended for one item of a page *)
Descriptor(item) ==
    [id |-> item.videoId, title |-> item.title, position |-> item.position + 1]

---------------------------------------------------------------------------
(* Values *)

None == [kind |-> "none", val |-> <<>>]
Unset == [kind |-> "unset", val |-> <<>>]
List(t) == [kind |-> "list", val |-> t]
Raised == [kind |-> "raise", val |-> <<>>]

(* Python truthiness of a transcript: None and [] are falsy *)
Truthy(tr) == tr.kind = "list" /\ tr.val # <<>>

TitleOf(id) ==
    IF id = <<"v", "1">> THEN <<"I", "n", "t", "r", "o", ":", " ", "P", "a", "r", "t", " ", "1", "!">>
    ELSE <<" ", "a", "_", "b", "-", "c">>

HelloMusicWorld ==
    <<[text |-> <<"H", "e", "l", "l", "o">>],
      [text |-> <<"[", "M", "u", "s", "i", "c", "]">>],
      [text |-> <<"w", "o", "r", "l", "d">>]>>

Transcripts == {<<>>, HelloMusicWorld}

(* what one call of YouTubeTranscriptApi.get_transcript can do *)
ApiResponses == {Raised} \cup {List(t) : t \in Transcripts}

(* what one file write (open, then dump/write) can do *)
IoOutcomes == {"ok", "open_raises", "write_raises"}

(* the playlists of up to MaxVideos items: the API numbers the items from   *)
(* 0; the two videos alternate, so that a video can occur twice            *)
IdAt(k) == IF k % 2 = 1 THEN <<"v", "1">> ELSE <<"v", "2">>

Playlists ==
    {[k \in 1..n |-> [videoId |-> IdAt(k), title |-> TitleOf(IdAt(k)),
                      position |-> k - 1]] : n \in 0..MaxVideos}

RECURSIVE Perms(_)
Perms(S) ==
    IF S = {} THEN {<<>>}
    ELSE UNION {{<<x>> \o p : p \in Perms(S \ {x})} : x \in S}

(* open(path, 'w') followed by a write: the file is replaced *)
WriteFile(dir, name, content) ==
    {f \in dir : f.name # name} \cup {[name |-> name, content |-> content]}

FileNames(dir) == {f.name : f \in dir}

---------------------------------------------------------------------------
(* The run of main *)

pureIdle == arg = <<>> /\ ret = <<>>

Init ==
    /\ pc = "list"
    /\ playlist \in Playlists
    /\ remaining = DOMAIN playlist
    /\ lister_videos = <<>>
    /\ next_page_token = "None"
    /\ videos = <<>>
    /\ i = 0
    /\ transcript = Unset
    /\ calls = <<>>
    /\ successful = 0
    /\ failed = 0
    /\ rawFiles = {}
    /\ cleanFiles = {}
    /\ sleeps = 0
    /\ outcomes = <<>>
    /\ listFailed = FALSE
    /\ pages = 0
    /\ pureIdle

(* The pages the API may answer with: any non-empty part of the items not   *)
(* yet delivered, at most maxResults of them (the empty page for an empty   *)
(* playlist), in any order.                                                 *)
Pages ==
    IF remaining = {} THEN {<<>>}
    ELSE UNION {Perms(S) : S \in {T \in SUBSET remaining :
                                    T # {} /\ Cardinality(T) <= maxResults}}

(* get_playlist_videos, one turn of `while True` whose request succeeds:    *)
(* the items are appended, and without a continuation token the loop ends,  *)
(* the list is sorted and returned to main (the lister's local list is      *)
(* gone with its frame).                                                    *)
ListPage ==
    /\ pc = "list"
    /\ \E page \in Pages :
        LET got == lister_videos \o [k \in 1..Len(page) |-> Descriptor(playlist[page[k]])]
            left == remaining \ {page[k] : k \in 1..Len(page)}
        IN  /\ remaining' = left
            /\ pages' = pages + 1
            /\ IF left # {}
               THEN /\ next_page_token' = "token"
                    /\ lister_videos' = got
                    /\ UNCHANGED <<pc, videos>>
               ELSE /\ next_page_token' = "None"
                    /\ lister_videos' = <<>>
                    /\ videos' = SortByPosition(got)
                    /\ pc' = "loop"
    /\ UNCHANGED <<playlist, i, transcript, calls, successful, failed, rawFiles,
                   cleanFiles, sleeps, outcomes, listFailed, arg, ret>>

(* ListFail with the error swallowed and the items collected so far        *)
(* returned                                                                 *)
ListFailReturnsPartial ==
    /\ pc = "list"
    /\ listFailed' = TRUE
    /\ videos' = SortByPosition(lister_videos)
    /\ lister_videos' = <<>>
    /\ pc' = "loop"
    /\ UNCHANGED <<playlist, remaining, next_page_token, i, transcript, calls,
                   successful, failed, rawFiles, cleanFiles, sleeps, outcomes,
                   pages, arg, ret>>

(* get_playlist_videos: .execute() raises; nothing catches it, in the       *)
(* lister or in main, and the script ends.                                  *)
ListFail ==
    /\ pc = "list"
    /\ listFailed' = TRUE
    /\ pc' = "aborted"
    /\ UNCHANGED <<playlist, remaining, lister_videos, next_page_token, videos,
                   i, transcript, calls, successful, failed, rawFiles,
                   cleanFiles, sleeps, outcomes, pages, arg, ret>>

(* main: the for loop takes the next video and enters the try block *)
StartVideo ==
    /\ pc = "loop"
    /\ i < Len(videos)
    /\ pc' = "try_hi"
    /\ UNCHANGED <<playlist, remaining, lister_videos, next_page_token, videos,
                   i, transcript, calls, successful, failed, rawFiles, cleanFiles, sleeps,
                   outcomes, listFailed, pages, arg, ret>>

(* main: the loop is exhausted and the summary is printed *)
Finish ==
    /\ pc = "loop"
    /\ i = Len(videos)
    /\ pc' = "done"
    /\ UNCHANGED <<mainVars, arg, ret>>

Call(languages, r) == [languages |-> languages, result |-> r]

(* get_transcript returns tr to main (line 137) *)
ReturnTranscript(tr) ==
    /\ transcript' = tr
    /\ pc' = "check"
    /\ UNCHANGED <<i, successful, failed, sleeps, outcomes>>

(* main, the end of one video's processing with `failed += 1` *)
CountFailed(saved) ==
    /\ failed' = failed + 1
    /\ outcomes' = Append(outcomes, [index |-> i + 1, fetched |-> transcript,
                                     saved |-> saved])
    /\ pc' = "sleep"
    /\ UNCHANGED <<i, successful, sleeps>>

(* main, `successful += 1` after save_transcript returned True *)
CountSuccessful ==
    /\ successful' = successful + 1
    /\ outcomes' = Append(outcomes, [index |-> i + 1, fetched |-> transcript,
                                     saved |-> "true"])
    /\ pc' = "sleep"
    /\ UNCHANGED <<i, failed, sleeps>>

(* ExceptHandler without `failed += 1` *)
ExceptHandlerNoCount ==
    /\ outcomes' = Append(outcomes, [index |-> i + 1, fetched |-> transcript,
                                     saved |-> "raised"])
    /\ pc' = "sleep"
    /\ UNCHANGED <<i, successful, failed, sleeps>>

(* ExceptHandler re-raising: the exception leaves the loop and main *)
ExceptHandlerAborts ==
    /\ pc' = "aborted"
    /\ UNCHANGED <<i, successful, failed, sleeps, outcomes>>

(* ExceptHandler with the pause inside the try block, skipped on an error *)
ExceptHandlerNoSleep ==
    /\ failed' = failed + 1
    /\ outcomes' = Append(outcomes, [index |-> i + 1, fetched |-> transcript,
                                     saved |-> "raised"])
    /\ i' = i + 1
    /\ pc' = "loop"
    /\ UNCHANGED <<successful, sleeps>>

(* main, `except Exception as e: failed += 1` *)
ExceptHandler == CountFailed("raised")

(* TryHi falling back to the unrestricted call at once *)
TryHiSkipsLocale ==
    /\ pc = "try_hi"
    /\ \E r \in ApiResponses :
        /\ calls' = Append(calls, Call("hi", r))
        /\ IF r.kind = "raise"
           THEN /\ pc' = "try_any"
                /\ UNCHANGED <<transcript, i, successful, failed, sleeps, outcomes>>
           ELSE ReturnTranscript(r)
    /\ UNCHANGED <<playlist, remaining, lister_videos, next_page_token, videos,
                   rawFiles, cleanFiles, listFailed, pages, arg, ret>>

(* get_transcript: the call with languages=['hi'] *)
TryHi ==
    /\ pc = "try_hi"
    /\ \E r \in ApiResponses :
        /\ calls' = Append(calls, Call("hi", r))
        /\ IF r.kind = "raise"
           THEN /\ pc' = "try_hi_IN"
                /\ UNCHANGED <<transcript, i, successful, failed, sleeps, outcomes>>
           ELSE ReturnTranscript(r)
    /\ UNCHANGED <<playlist, remaining, lister_videos, next_page_token, videos,
                   rawFiles, cleanFiles, listFailed, pages, arg, ret>>

(* get_transcript: the call with languages=['hi-IN'] *)
TryHiIN ==
    /\ pc = "try_hi_IN"
    /\ \E r \in ApiResponses :
        /\ calls' = Append(calls, Call("hi-IN", r))
        /\ IF r.kind = "raise"
           THEN /\ pc' = "try_any"
                /\ UNCHANGED <<transcript, i, successful, failed, sleeps, outcomes>>
           ELSE ReturnTranscript(r)
    /\ UNCHANGED <<playlist, remaining, lister_videos, next_page_token, videos,
                   rawFiles, cleanFiles, listFailed, pages, arg, ret>>

(* TryAny without its try/except: the third failure reaches main's handler *)
TryAnyUncaught ==
    /\ pc = "try_any"
    /\ \E r \in ApiResponses :
        /\ calls' = Append(calls, Call("any", r))
        /\ IF r.kind = "raise"
           THEN /\ ExceptHandler
                /\ UNCHANGED transcript
           ELSE ReturnTranscript(r)
    /\ UNCHANGED <<playlist, remaining, lister_videos, next_page_token, videos,
                   rawFiles, cleanFiles, listFailed, pages, arg, ret>>

(* get_transcript: the call without languages; its failure returns None *)
TryAny ==
    /\ pc = "try_any"
    /\ \E r \in ApiResponses :
        /\ calls' = Append(calls, Call("any", r))
        /\ IF r.kind = "raise" THEN ReturnTranscript(None) ELSE ReturnTranscript(r)
    /\ UNCHANGED <<playlist, remaining, lister_videos, next_page_token, videos,
                   rawFiles, cleanFiles, listFailed, pages, arg, ret>>

(* main: `if transcript:` ... `else: failed += 1` *)
CheckTranscript ==
    /\ pc = "check"
    /\ IF Truthy(transcript)
       THEN /\ pc' = "save"
            /\ UNCHANGED <<i, successful, failed, sleeps, outcomes>>
       ELSE CountFailed("not_called")
    /\ calls' = <<>>
    /\ UNCHANGED <<playlist, remaining, lister_videos, next_page_token, videos,
                   transcript, rawFiles, cleanFiles, listFailed, pages, arg, ret>>

(* save_transcript up to `if transcript:`; a falsy transcript returns False *)
(* and main counts the video as failed.                                     *)
SaveEnter ==
    /\ pc = "save"
    /\ IF Truthy(transcript)
       THEN /\ pc' = "write_raw"
            /\ UNCHANGED <<i, successful, failed, sleeps, outcomes>>
       ELSE CountFailed("false")
    /\ UNCHANGED <<playlist, remaining, lister_videos, next_page_token, videos,
                   transcript, calls, rawFiles, cleanFiles, listFailed, pages, arg, ret>>

Complete(data) == [complete |-> TRUE, data |-> data]
Partial == [complete |-> FALSE, data |-> <<>>]

(* save_transcript: open(raw_path, 'w') and json.dump *)
WriteRaw ==
    /\ pc = "write_raw"
    /\ \E io \in IoOutcomes :
        CASE io = "ok" ->
                /\ rawFiles' = WriteFile(rawFiles, raw_name(videos[i + 1]),
                                         Complete(transcript.val))
                /\ pc' = "write_clean"
                /\ UNCHANGED <<i, successful, failed, sleeps, outcomes>>
          [] io = "open_raises" ->
                /\ rawFiles' = rawFiles
                /\ ExceptHandler
          [] io = "write_raises" ->
                /\ rawFiles' = WriteFile(rawFiles, raw_name(videos[i + 1]), Partial)
                /\ ExceptHandler
    /\ UNCHANGED <<playlist, remaining, lister_videos, next_page_token, videos,
                   transcript, calls, cleanFiles, listFailed, pages, arg, ret>>

(* WriteClean returning True without having written the clean file *)
WriteCleanNoFile ==
    /\ pc = "write_clean"
    /\ cleanFiles' = cleanFiles
    /\ CountSuccessful
    /\ UNCHANGED <<playlist, remaining, lister_videos, next_page_token, videos,
                   transcript, calls, rawFiles, listFailed, pages, arg, ret>>

(* save_transcript: clean_transcript, open(clean_path, 'w'), f.write and    *)
(* `return True`, on which main counts the video as successful.             *)
WriteClean ==
    /\ pc = "write_clean"
    /\ \E io \in IoOutcomes :
        CASE io = "ok" ->
                /\ cleanFiles' = WriteFile(cleanFiles, clean_name(videos[i + 1]),
                                           Complete(clean_transcript(transcript.val)))
                /\ CountSuccessful
          [] io = "open_raises" ->
                /\ cleanFiles' = cleanFiles
                /\ ExceptHandler
          [] io = "write_raises" ->
                /\ cleanFiles' = WriteFile(cleanFiles, clean_name(videos[i + 1]), Partial)
                /\ ExceptHandler
    /\ UNCHANGED <<playlist, remaining, lister_videos, next_page_token, videos,
                   transcript, calls, rawFiles, listFailed, pages, arg, ret>>

(* main: time.sleep(1), after which the for loop advances (the transcript   *)
(* of the video just processed is not read again).                          *)
Sleep ==
    /\ pc = "sleep"
    /\ sleeps' = sleeps + 1
    /\ i' = i + 1
    /\ transcript' = Unset
    /\ pc' = "loop"
    /\ UNCHANGED <<playlist, remaining, lister_videos, next_page_token, videos,
                   calls, successful, failed, rawFiles, cleanFiles,
                   outcomes, listFailed, pages, arg, ret>>

Next ==
    \/ ListPage
    \/ ListFail
    \/ StartVideo
    \/ TryHi
    \/ TryHiIN
    \/ TryAny
    \/ CheckTranscript
    \/ SaveEnter
    \/ WriteRaw
    \/ WriteClean
    \/ Sleep
    \/ Finish

Spec == Init /\ [][Next]_vars

---------------------------------------------------------------------------
(* clean_transcript and the file names of save_transcript as functions of   *)
(* their arguments                                                          *)

mainIdle ==
    /\ playlist = <<>>
    /\ remaining = {}
    /\ lister_videos = <<>>
    /\ next_page_token = "None"
    /\ videos = <<>>
    /\ i = 0
    /\ transcript = Unset
    /\ calls = <<>>
    /\ successful = 0
    /\ failed = 0
    /\ rawFiles = {}
    /\ cleanFiles = {}
    /\ sleeps = 0
    /\ outcomes = <<>>
    /\ listFailed = FALSE
    /\ pages = 0

CleanAlphabet == {"a", "[", "]", " "}

EntryTexts == StringsUpTo(CleanAlphabet, MaxEntryLen)

CleanInputs ==
    {HelloMusicWorld} \cup
    UNION {{[k \in 1..n |-> [text |-> texts[k]]] : texts \in [1..n -> EntryTexts]}
           : n \in 0..MaxEntries}

InitClean ==
    /\ pc = "clean_call"
    /\ arg \in CleanInputs
    /\ ret = <<>>
    /\ mainIdle

CleanCall ==
    /\ pc = "clean_call"
    /\ ret' = clean_transcript(arg)
    /\ pc' = "clean_ret"
    /\ UNCHANGED <<mainVars, arg>>

NextClean == CleanCall

SpecClean == InitClean /\ [][NextClean]_vars

TitleAlphabet == {"a", "1", "_", " ", "\t", "-", "!"}

IntroTitle == <<"I", "n", "t", "r", "o", ":", " ", "P", "a", "r", "t", " ", "1", "!">>

Titles == {IntroTitle} \cup StringsUpTo(TitleAlphabet, MaxTitleLen)

Positions == {1, 12, 123, 1234}

NameInputs ==
    {[id |-> id, title |-> title, position |-> position] :
        id \in {<<"v", "1">>, <<"a", "-", "_">>}, title \in Titles,
        position \in Positions}

InitName ==
    /\ pc = "name_call"
    /\ arg \in NameInputs
    /\ ret = <<>>
    /\ mainIdle

(* save_transcript, lines 102-117: the three names it derives *)
NameCall ==
    /\ pc = "name_call"
    /\ ret' = [base |-> base_filename(arg), raw |-> raw_name(arg),
               clean |-> clean_name(arg)]
    /\ pc' = "name_ret"
    /\ UNCHANGED <<mainVars, arg>>

NextName == NameCall

SpecName == InitName /\ [][NextName]_vars

---------------------------------------------------------------------------
(* Properties *)

Video(k) == videos[outcomes[k].index]

RawArtifacts(v) == {f \in rawFiles : f.name = base_filename(v) \o <<".", "j", "s", "o", "n">>}

CleanArtifacts(v) == {f \in cleanFiles : f.name = base_filename(v) \o <<".", "t", "x", "t">>}

Ended == 1..Len(outcomes)

(* C1, as claimed: every video processed so far whose fetch yielded a       *)
(* non-empty transcript has exactly one raw and exactly one clean artifact  *)
(* under its base filename, also when a write step failed part-way; every   *)
(* video whose fetch yielded None or an empty transcript has none.          *)
C1_AsClaimed ==
    \A k \in Ended :
        IF Truthy(outcomes[k].fetched)
        THEN /\ Cardinality(RawArtifacts(Video(k))) = 1
             /\ Cardinality(CleanArtifacts(Video(k))) = 1
        ELSE /\ RawArtifacts(Video(k)) = {}
             /\ CleanArtifacts(Video(k)) = {}

(* C1, amended: in a run that starts with empty output directories, every   *)
(* video for which save_transcript returned True has exactly one raw and    *)
(* exactly one clean artifact under its base filename, both completely      *)
(* written, and they are the only files of the two directories besides      *)
(* those of other videos; every video whose fetch yielded None or an empty  *)
(* transcript has no artifact; a video whose write step raised has either   *)
(* no artifact, or a raw artifact alone, or a complete raw artifact with an *)
(* incomplete clean one.                                                    *)
C1_Artifacts ==
    /\ \A k \in Ended :
        LET o == outcomes[k]
            raw == RawArtifacts(Video(k))
            clean == CleanArtifacts(Video(k))
        IN  /\ o.saved = "true" =>
                /\ Truthy(o.fetched)
                /\ Cardinality(raw) = 1 /\ \A f \in raw : f.content.complete
                /\ Cardinality(clean) = 1 /\ \A f \in clean : f.content.complete
            /\ ~Truthy(o.fetched) => raw = {} /\ clean = {}
            /\ (Truthy(o.fetched) /\ o.saved # "true") =>
                /\ Cardinality(raw) <= 1 /\ Cardinality(clean) <= 1
                /\ clean # {} => (\A f \in raw : f.content.complete) /\ raw # {}
                /\ \A f \in clean : ~f.content.complete
    /\ \A f \in rawFiles : \E k \in 1..Len(videos) : f \in RawArtifacts(videos[k])
    /\ \A f \in cleanFiles : \E k \in 1..Len(videos) : f \in CleanArtifacts(videos[k])

(* C1, its case: one video saved, one without a transcript, and one whose   *)
(* write failed after the raw file was written.                             *)
C1_Witness ==
    /\ pc = "done"
    /\ \E j, k, l \in Ended :
        /\ outcomes[j].saved = "true"
        /\ outcomes[k].fetched = None
        /\ outcomes[l].saved = "raised"
        /\ RawArtifacts(Video(l)) # {} /\ CleanArtifacts(Video(l)) = {}

FallbackOrder == <<"hi", "hi-IN", "any">>

AllRaised == \A k \in 1..Len(calls) : calls[k].result.kind = "raise"

(* C2: get_transcript never raises to main; what it returns is the          *)
(* transcript of the attempt that succeeded, or None, and it is None        *)
(* exactly when all three attempts have raised.                             *)
C2_NeverRaises ==
    /\ pc = "check" =>
        /\ transcript.kind \in {"none", "list"}
        /\ (transcript = None) <=> (Len(calls) = 3 /\ AllRaised)
        /\ transcript # None =>
            /\ calls # <<>>
            /\ calls[Len(calls)].result.kind = "list"
            /\ transcript = calls[Len(calls)].result
    /\ pc \in {"save", "write_raw", "write_clean", "sleep"} =>
        transcript.kind \in {"none", "list"}
    /\ \A k \in Ended : outcomes[k].fetched.kind \in {"none", "list"}

(* C2, its case: all three attempts raised and None has been returned *)
C2_Witness ==
    pc = "check" /\ Len(calls) = 3 /\ AllRaised /\ transcript = None

(* C3: the attempts are made in the order hi, hi-IN, unrestricted; an       *)
(* attempt is made only after every earlier one has raised; the first       *)
(* success is returned and ends the chain, so at most three calls are made. *)
C3_FallbackOrder ==
    /\ Len(calls) <= 3
    /\ \A k \in 1..Len(calls) : calls[k].languages = FallbackOrder[k]
    /\ \A k \in 1..(Len(calls) - 1) : calls[k].result.kind = "raise"
    /\ pc = "try_hi" => calls = <<>>
    /\ pc = "try_hi_IN" => Len(calls) = 1 /\ AllRaised
    /\ pc = "try_any" => Len(calls) = 2 /\ AllRaised
    /\ pc = "check" =>
        /\ calls # <<>>
        /\ calls[Len(calls)].result.kind = "list" =>
            transcript = calls[Len(calls)].result
        /\ Len(calls) < 3 => calls[Len(calls)].result.kind = "list"

(* C3, its case: the second attempt succeeded after the first had raised *)
C3_Witness ==
    /\ pc = "check"
    /\ Len(calls) = 2
    /\ calls[1].result.kind = "raise"
    /\ transcript = calls[2].result
    /\ Truthy(transcript)

Unavailable(tr) == tr.kind = "none" \/ (tr.kind = "list" /\ tr.val = <<>>)

(* C4: each processed video changes exactly one counter by one: successful  *)
(* counts the videos whose fetch returned a transcript and whose save       *)
(* returned True, failed counts the videos whose fetch was unavailable,     *)
(* whose save returned False or whose processing raised; their sum is the   *)
(* number of videos processed, and the playlist length at the end.          *)
C4_Counters ==
    /\ successful = Cardinality({k \in Ended :
            Truthy(outcomes[k].fetched) /\ outcomes[k].saved = "true"})
    /\ failed = Cardinality({k \in Ended :
            \/ Unavailable(outcomes[k].fetched)
            \/ outcomes[k].saved \in {"false", "raised"}})
    /\ \A k \in Ended : outcomes[k].index = k
    /\ successful + failed = Len(outcomes)
    /\ Len(outcomes) = IF pc = "sleep" THEN i + 1 ELSE i
    /\ pc = "done" => successful + failed = Len(playlist)

(* C4, its case: a finished run with a saved video, an unavailable          *)
(* transcript and a write that raised                                       *)
C4_Witness ==
    /\ pc = "done"
    /\ successful = 1 /\ failed = 2
    /\ \E k \in Ended : outcomes[k].saved = "raised"
    /\ \E k \in Ended : outcomes[k].saved = "not_called"

ExactlyOneExhausted ==
    /\ Cardinality({k \in Ended : outcomes[k].fetched = None}) = 1
    /\ \A k \in Ended : outcomes[k].fetched # None => outcomes[k].saved = "true"

RunComplete ==
    /\ Len(outcomes) = Len(videos)
    /\ \A k \in Ended : outcomes[k].index = k
    /\ ExactlyOneExhausted =>
        /\ successful = Len(videos) - 1
        /\ failed = 1
        /\ Cardinality(rawFiles) = Len(videos) - 1
        /\ Cardinality(cleanFiles) = Len(videos) - 1

PcRank ==
    CASE pc = "loop" -> 0
      [] pc = "try_hi" -> 1
      [] pc = "try_hi_IN" -> 2
      [] pc = "try_any" -> 3
      [] pc = "check" -> 4
      [] pc = "save" -> 5
      [] pc = "write_raw" -> 6
      [] pc = "write_clean" -> 7
      [] pc = "sleep" -> 8
      [] OTHER -> 9

(* how far the loop of main has come: the videos left behind, then the      *)
(* position within the current one                                          *)
Rank == 10 * i + PcRank

(* C5: once the listing has succeeded, no failure of a single video aborts  *)
(* the run: every listed video is processed once, in list order, and the    *)
(* summary is reached; with exactly one exhausted fetch among N videos the  *)
(* run ends with N-1 successful, 1 failed, N-1 raw and N-1 clean files.     *)
(* Reaching the summary is stated as: after the listing every step moves    *)
(* the loop forward and none aborts, a step exists in every state short of  *)
(* the summary, and the loop never passes the end of the list.              *)
C5_RunCompletes ==
    /\ [][pc # "list" => (pc' # "aborted" /\ Rank' > Rank)]_vars
    /\ [](pc \notin {"aborted", "done"} => ENABLED Next)
    /\ [](pc # "list" => i <= Len(videos))
    /\ [](pc = "done" => RunComplete)

(* C5, its case: three videos, the second one's fetch exhausted *)
C5_Witness ==
    /\ pc = "done"
    /\ Len(videos) = 3
    /\ outcomes[2].fetched = None
    /\ ExactlyOneExhausted
    /\ successful = 2 /\ failed = 1
    /\ Cardinality(rawFiles) = 2 /\ Cardinality(cleanFiles) = 2

(* C6: whatever the split of the playlist's N items into pages, the list    *)
(* get_playlist_videos returns has N descriptors, one per item, ascending   *)
(* by position, with the positions 1..N.                                    *)
C6_Positions ==
    pc \notin {"list", "aborted"} =>
        /\ Len(videos) = Len(playlist)
        /\ \A k \in 1..Len(videos) :
            /\ videos[k].position = k
            /\ videos[k].id = playlist[k].videoId
            /\ videos[k].title = playlist[k].title
        /\ \A j, k \in 1..Len(videos) :
            j < k => videos[j].position < videos[k].position

(* C6, its case: three items delivered on more than one page *)
C6_Witness == pc = "loop" /\ Len(videos) = 3 /\ pages >= 2

(* C7: a failed page request, first or later, ends the run at once: main    *)
(* receives no list, fetches no transcript, writes no artifact and never    *)
(* enters the loop.                                                         *)
C7_ListingFatal ==
    listFailed =>
        /\ pc = "aborted"
        /\ videos = <<>>
        /\ i = 0
        /\ calls = <<>> /\ outcomes = <<>>
        /\ transcript = Unset
        /\ rawFiles = {} /\ cleanFiles = {}
        /\ successful = 0 /\ failed = 0 /\ sleeps = 0
        /\ ~ENABLED Next

(* C7, its case: the request for a later page failed, with items of earlier *)
(* pages already collected                                                  *)
C7_Witness == listFailed /\ pages >= 1 /\ lister_videos # <<>>

(* C10: one pause after each video whatever its outcome, and no fetch for   *)
(* the next video before it: the completed pauses always equal the videos   *)
(* left behind, and equal the number of videos when the run completes.      *)
C10_Pacing ==
    /\ sleeps = i
    /\ pc \in {"try_hi", "try_hi_IN", "try_any", "check", "save", "write_raw",
               "write_clean"} => Len(outcomes) = sleeps /\ i < Len(videos)
    /\ pc = "sleep" => Len(outcomes) = sleeps + 1
    /\ pc \in {"loop", "done"} => Len(outcomes) = sleeps
    /\ pc = "done" => sleeps = Len(videos)

(* C10, its case: a finished run of three videos with three different       *)
(* outcomes and three pauses                                                *)
C10_Witness ==
    /\ pc = "done"
    /\ sleeps = 3
    /\ {outcomes[k].saved : k \in Ended} = {"true", "raised", "not_called"}

NewlineCount(s) == Cardinality({k \in 1..Len(s) : s[k] = "\n"})

(* s holds '[', one or more characters other than ']', and ']' *)
BracketLeft(s) ==
    \E a, b \in 1..Len(s) :
        /\ b >= a + 2
        /\ s[a] = "[" /\ s[b] = "]"
        /\ \A k \in (a + 1)..(b - 1) : s[k] # "]"

JoinedAndTrimmed(entries) ==
    Strip(Join(<<"\n">>, [k \in 1..Len(entries) |-> entries[k].text]))

(* C8: for a non-empty transcript the cleaned text is the joined and        *)
(* trimmed text without its bracketed annotations; the newlines that        *)
(* separate the entries all survive, so that no two entries share a line    *)
(* (Hello, [Music], world gives "Hello\n\nworld"), and no bracketed         *)
(* annotation remains.                                                      *)
C8_AsClaimed ==
    (pc = "clean_ret" /\ arg # <<>>) =>
        /\ NewlineCount(ret) = NewlineCount(JoinedAndTrimmed(arg))
        /\ ~BracketLeft(ret)
        /\ arg = HelloMusicWorld =>
            ret = <<"H", "e", "l", "l", "o", "\n", "\n", "w", "o", "r", "l", "d">>

IsDigitString(p) == \A k \in 1..Len(p) : p[k] \in DigitChars

RECURSIVE DecimalValue(_)
DecimalValue(p) ==
    IF p = <<>> THEN 0
    ELSE 10 * DecimalValue(SubSeq(p, 1, Len(p) - 1))
         + (CHOOSE d \in 0..9 : Digits[d + 1] = p[Len(p)])

(* p is n in decimal, filled with zeros to three digits *)
ZeroPadded3(p, n) ==
    /\ IsDigitString(p)
    /\ Len(p) >= 3
    /\ Len(p) > 3 => p[1] # "0"
    /\ DecimalValue(p) = n

(* the title with all but alphanumerics, spaces and hyphens removed, and    *)
(* its spaces turned into underscores                                       *)
ClaimedTitle(title) ==
    LET kept == SelectSeq(title, LAMBDA c : c \in Letters \cup DigitChars \cup {" ", "-"})
    IN  [k \in 1..Len(kept) |-> IF kept[k] = " " THEN "_" ELSE kept[k]]

(* the title with all but word characters (alphanumerics, underscore),      *)
(* whitespace and hyphens removed, without the whitespace at its two ends,  *)
(* and its spaces turned into underscores                                   *)
AmendedTitle(title) ==
    LET kept == SelectSeq(title, LAMBDA c :
                    c \in Letters \cup DigitChars \cup {"_", "-", " ", "\t", "\n"})
        inner == {k \in 1..Len(kept) : kept[k] \notin {" ", "\t", "\n"}}
    IN  IF inner = {} THEN <<>>
        ELSE LET lo == CHOOSE k \in inner : \A m \in inner : k <= m
                 hi == CHOOSE k \in inner : \A m \in inner : k >= m
             IN  [k \in 1..(hi - lo + 1) |->
                    IF kept[lo + k - 1] = " " THEN "_" ELSE kept[lo + k - 1]]

NamesBuiltFrom(sanitized) ==
    /\ \E n \in 1..Len(ret.base) :
        /\ ZeroPadded3(SubSeq(ret.base, 1, n), arg.position)
        /\ SubSeq(ret.base, n + 1, Len(ret.base))
             = <<"_">> \o sanitized \o <<"_">> \o arg.id
    /\ ret.raw = ret.base \o <<".", "j", "s", "o", "n">>
    /\ ret.clean = ret.base \o <<".", "t", "x", "t">>

(* C9, as claimed: the base filename is the position zero-padded to three   *)
(* digits, '_', the title with everything but alphanumerics, spaces and     *)
(* hyphens stripped and its spaces replaced by underscores, '_', the video  *)
(* id; the two artifacts are the base with .json and .txt.                  *)
C9_AsClaimed ==
    pc = "name_ret" => NamesBuiltFrom(ClaimedTitle(arg.title))

(* C9, amended: as claimed, but the sanitized title keeps underscores and   *)
(* every whitespace character besides alphanumerics and hyphens, loses the  *)
(* whitespace at its two ends, and only then has its spaces replaced by     *)
(* underscores ("Intro: Part 1!" gives "Intro_Part_1").                     *)
C9_Filename ==
    pc = "name_ret" =>
        /\ NamesBuiltFrom(AmendedTitle(arg.title))
        /\ arg.title = IntroTitle =>
            AmendedTitle(arg.title)
                = <<"I", "n", "t", "r", "o", "_", "P", "a", "r", "t", "_", "1">>

(* C9, its case: a title with a leading space, an underscore and a          *)
(* character to strip                                                       *)
C9_Witness ==
    /\ pc = "name_ret"
    /\ arg.title = <<" ", "_", "!">>
    /\ arg.position = 12
    /\ arg.id = <<"v", "1">>
    /\ ret.base = <<"0", "1", "2", "_", "_", "_", "v", "1">>

=============================================================================
